---- MODULE Spec2Model ----
(***************************************************************************)
(* Pomp - portable one-way migrations for Postgres.                        *)
(*                                                                         *)
(* A model of the engine class Pomp (src/index.js): the parsing and        *)
(* validation of the local migration list, the two-pointer merge that      *)
(* yields the pending migrations, and the execution and bookkeeping of     *)
(* migrations against the version table pomp.versions.                     *)
(*                                                                         *)
(* Identifiers are sequences of one-character strings.  A JavaScript       *)
(* number holding a non-negative integer is a record [hi, lo] that stands  *)
(* for hi * 10^8 + lo with lo < 10^8, so that values around 2^53, where a  *)
(* double stops being exact, can be written down.                          *)
(***************************************************************************)
EXTENDS Integers, Sequences, FiniteSets, Bags, TLC

(***************************************************************************)
(* Bounds of the model.                                                    *)
(***************************************************************************)
\* longest collaborator list of identifiers that is enumerated
MaxLocal == 3
\* number of script blocks one behaviour executes
MaxEffects == 3

(***************************************************************************)
(* JavaScript numbers (non-negative integers up to 17 decimal digits).     *)
(***************************************************************************)
Limb == 10000 * 10000

\* the number n, for a small n
V(n) == [hi |-> 0, lo |-> n]

NumLt(a, b) == a.hi < b.hi \/ (a.hi = b.hi /\ a.lo < b.lo)

NumLe(a, b) == a = b \/ NumLt(a, b)

\* 2^53, 2^54, 2^55, 2^56: where the spacing of doubles becomes 2, 4, 8, 16
Pow53 == [hi |-> 90071992, lo |-> 54740992]
Pow54 == [hi |-> 180143985, lo |-> 9481984]
Pow55 == [hi |-> 360287970, lo |-> 18963968]
Pow56 == [hi |-> 720575940, lo |-> 37927936]

\* the distance between neighbouring doubles at the integer x
Ulp(x) ==
    IF NumLe(x, Pow53) THEN 1
    ELSE IF NumLt(x, Pow54) THEN 2
    ELSE IF NumLt(x, Pow55) THEN 4
    ELSE IF NumLt(x, Pow56) THEN 8
    ELSE 16

\* x + d for 0 <= d < Limb
NumAdd(x, d) ==
    IF x.lo + d >= Limb THEN [hi |-> x.hi + 1, lo |-> x.lo + d - Limb]
    ELSE [hi |-> x.hi, lo |-> x.lo + d]

\* the double nearest to the integer x, ties to the even significand
ToDouble(x) ==
    LET u    == Ulp(x)
        r    == x.lo % u
        down == [hi |-> x.hi, lo |-> x.lo - r]
        up   == NumAdd(down, u)
        even == (down.lo % (2 * u)) = 0
    IN  IF r = 0 THEN x
        ELSE IF 2 * r < u THEN down
        ELSE IF 2 * r > u THEN up
        ELSE IF even THEN down ELSE up

(***************************************************************************)
(* Characters and the parsing of an identifier.                            *)
(***************************************************************************)
Digits == {"0", "1", "2", "3", "4", "5", "6", "7", "8", "9"}

DigitVal(c) ==
    CASE c = "0" -> 0 [] c = "1" -> 1 [] c = "2" -> 2 [] c = "3" -> 3
      [] c = "4" -> 4 [] c = "5" -> 5 [] c = "6" -> 6 [] c = "7" -> 7
      [] c = "8" -> 8 [] c = "9" -> 9

\* the basename with a slip: the path is not split
BasenameWhole(pathName) == pathName

\* pathName.split(/\//).at(-1): the text after the last '/'
RECURSIVE Basename(_)
Basename(pathName) ==
    IF \E k \in 1..Len(pathName) : pathName[k] = "/"
    THEN Basename(Tail(pathName))
    ELSE pathName

\* name.match(/^[0-9]+/): the longest leading run of digits; <<>> is "no match"
RECURSIVE MatchDigits(_)
MatchDigits(name) ==
    IF name # <<>> /\ Head(name) \in Digits
    THEN <<Head(name)>> \o MatchDigits(Tail(name))
    ELSE <<>>

\* the exact integer a digit run denotes
RECURSIVE Decimal(_, _)
Decimal(acc, digs) ==
    IF digs = <<>> THEN acc
    ELSE LET t == acc.lo * 10 + DigitVal(Head(digs))
         IN  Decimal([hi |-> acc.hi * 10 + (t \div Limb), lo |-> t % Limb],
                     Tail(digs))

\* Number(version): the digit run read as a double
Number(digs) == ToDouble(Decimal(V(0), digs))

(***************************************************************************)
(* Pomp.listLocalMigrations: parse, validate and sort the local list.      *)
(***************************************************************************)
\* what line 38 raises: the message template reads versions[i] with no i in
\* scope, so the throw statement ends in a ReferenceError before the
\* "Duplicate local migration versions found" Error is constructed
DuplicateThrow == "ReferenceError"

\* results.sort((a, b) => a.version - b.version): insert e into a sorted list
\* behind the entries that do not compare greater (a stable sort)
RECURSIVE SortInsert(_, _)
SortInsert(sorted, e) ==
    IF sorted = <<>> THEN <<e>>
    ELSE IF NumLt(e.version, Head(sorted).version) THEN <<e>> \o sorted
    ELSE <<Head(sorted)>> \o SortInsert(Tail(sorted), e)

\* the sort with a slip: the results are left in the collaborator's order
SortByVersionNone(results) == results

RECURSIVE SortByVersion(_)
SortByVersion(results) ==
    IF results = <<>> THEN <<>>
    ELSE SortInsert(SortByVersion(SubSeq(results, 1, Len(results) - 1)),
                    results[Len(results)])

\* the loop of lines 33-42 from position k on, with the results and the
\* set seen so far
RECURSIVE ScanLocal(_, _, _, _)
ScanLocal(versions, k, results, seen) ==
    IF k > Len(versions) THEN [error |-> "none", list |-> SortByVersion(results)]
    ELSE LET pathName == versions[k]
             name     == Basename(pathName)
             version  == MatchDigits(name)
         IN  IF version = <<>> THEN ScanLocal(versions, k + 1, results, seen)
             ELSE IF Number(version) \in seen
                  THEN [error |-> DuplicateThrow, list |-> <<>>]
                  ELSE ScanLocal(versions, k + 1,
                           Append(results, [version |-> Number(version),
                                            name |-> pathName]),
                           seen \cup {Number(version)})

ListLocalMigrations(versions) == ScanLocal(versions, 1, <<>>, {})

(***************************************************************************)
(* The version table pomp.versions, a bag of bigint values.                *)
(***************************************************************************)
\* the insert with a slip: the statement records nothing
InsertVersionLost(tbl, v) == [error |-> "none", rows |-> tbl]

\* the insert with a slip: no ON CONFLICT clause, so the primary key rejects
\* a version that is already there
InsertVersionPlain(tbl, v) ==
    IF BagIn(v, tbl) THEN [error |-> "UniqueViolation", rows |-> tbl]
    ELSE [error |-> "none", rows |-> tbl (+) SetToBag({v})]

\* the insert on a table without the primary key: a row is added each time
InsertVersionNoKey(tbl, v) == [error |-> "none", rows |-> tbl (+) SetToBag({v})]

\* the insert into a table that keeps the latest version only
InsertVersionLatestOnly(tbl, v) == [error |-> "none", rows |-> SetToBag({v})]

\* INSERT INTO pomp.versions ... VALUES(v, NOW()) ON CONFLICT (version) DO
\* NOTHING, on the rows of the table: the error raised and the rows left
InsertVersion(tbl, v) ==
    IF BagIn(v, tbl) THEN [error |-> "none", rows |-> tbl]
    ELSE [error |-> "none", rows |-> tbl (+) SetToBag({v})]

\* the smallest value of a non-empty set of numbers
MinNum(S) == CHOOSE m \in S : \A x \in S : NumLe(m, x)

RECURSIVE Copies(_, _)
Copies(x, n) == IF n = 0 THEN <<>> ELSE <<x>> \o Copies(x, n - 1)

\* select version from pomp.versions order by version
RECURSIVE SelectVersions(_)
SelectVersions(table) ==
    IF BagToSet(table) = {} THEN <<>>
    ELSE LET m    == MinNum(BagToSet(table))
             rest == [x \in BagToSet(table) \ {m} |-> table[x]]
         IN  Copies(m, table[m]) \o SelectVersions(rest)

\* result.map(r => ({ version: Number(r.version) }))
MapRemote(result) == [k \in 1..Len(result) |-> [version |-> ToDouble(result[k])]]

(***************************************************************************)
(* Pomp.pendingMigrations: the two-pointer merge (indices from 1).         *)
(***************************************************************************)
\* the merge with a slip: an orphaned remote version advances both indices
RECURSIVE MergeOrphanAdvancesBoth(_, _, _, _, _)
MergeOrphanAdvancesBoth(local, remote, i, j, pending) ==
    IF i > Len(local) THEN pending
    ELSE IF j <= Len(remote) /\ local[i].version = remote[j].version
         THEN MergeOrphanAdvancesBoth(local, remote, i + 1, j + 1, pending)
    ELSE IF j <= Len(remote) /\ NumLt(remote[j].version, local[i].version)
         THEN MergeOrphanAdvancesBoth(local, remote, i + 1, j + 1, pending)
    ELSE MergeOrphanAdvancesBoth(local, remote, i + 1, j, Append(pending, local[i]))

\* the merge with a slip: the version is compared with the remote entry
\* itself, which it never equals
RECURSIVE MergeNeverEqual(_, _, _, _, _)
MergeNeverEqual(local, remote, i, j, pending) ==
    IF i > Len(local) THEN pending
    ELSE IF j <= Len(remote) /\ NumLt(remote[j].version, local[i].version)
         THEN MergeNeverEqual(local, remote, i, j + 1, pending)
    ELSE MergeNeverEqual(local, remote, i + 1, j, Append(pending, local[i]))

RECURSIVE Merge(_, _, _, _, _)
Merge(local, remote, i, j, pending) ==
    IF i > Len(local) THEN pending
    ELSE IF j <= Len(remote) /\ local[i].version = remote[j].version
         THEN Merge(local, remote, i + 1, j + 1, pending)
    ELSE IF j <= Len(remote) /\ NumLt(remote[j].version, local[i].version)
         THEN Merge(local, remote, i, j + 1, pending)
    ELSE Merge(local, remote, i + 1, j, Append(pending, local[i]))

\* the merge with a slip: nothing is filtered
PendingOfAll(local, remote) == local

PendingOf(local, remote) == Merge(local, remote, 1, 1, <<>>)

(***************************************************************************)
(* Inputs: the identifiers the collaborator may list, the versions a       *)
(* caller passes, and the version tables the engine may be started on.     *)
(***************************************************************************)
\* "3-init.sql"
InitSql ==
    <<"3", "-", "i", "n", "i", "t", ".", "s", "q", "l">>
\* "10-add-col.sql"
AddColSql ==
    <<"1", "0", "-", "a", "d", "d", "-", "c", "o", "l", ".", "s", "q", "l">>
\* "2-seed.sql"
SeedSql ==
    <<"2", "-", "s", "e", "e", "d", ".", "s", "q", "l">>
\* "m/02-x"
PathZero ==
    <<"m", "/", "0", "2", "-", "x">>
\* "readme"
Readme ==
    <<"r", "e", "a", "d", "m", "e">>
\* "7/notes"
DigitDir ==
    <<"7", "/", "n", "o", "t", "e", "s">>
\* "9007199254740993-a"
Big93 ==
    <<"9", "0", "0", "7", "1", "9", "9", "2", "5", "4", "7", "4", "0", "9", "9", "3", "-", "a">>
\* "9007199254740992-b"
Big92 ==
    <<"9", "0", "0", "7", "1", "9", "9", "2", "5", "4", "7", "4", "0", "9", "9", "2", "-", "b">>

\* identifiers of the engine behaviours and of the list behaviours
EnginePool == {InitSql, AddColSql, SeedSql, PathZero}
ListPool == {InitSql, AddColSql, SeedSql, PathZero, Readme, DigitDir, Big93, Big92}

\* all sequences over S of length at most n
RECURSIVE SeqsUpTo(_, _)
SeqsUpTo(S, n) ==
    IF n = 0 THEN {<<>>}
    ELSE LET shorter == SeqsUpTo(S, n - 1)
         IN  shorter \cup {Append(q, x) : q \in shorter, x \in S}

Injective(q) == \A a, b \in 1..Len(q) : q[a] = q[b] => a = b

\* versions passed to runMigration(version, queryText): a local migration's
RunVersions == {V(3)}

\* versions passed to skipMigration(version): a local migration's and one
\* that no local migration has
SkipVersions == {V(3), V(5)}

\* versions a version table may hold when the engine is constructed: one
\* that no local migration has
StoredVersions == {V(5)}

Runners == {1, 2}

(***************************************************************************)
(* State.                                                                  *)
(***************************************************************************)
VARIABLES
    files,     \* what options.listLocalMigrations() returns
    schema,    \* the schema pomp exists
    table,     \* the table pomp.versions exists
    rows,      \* the rows of pomp.versions: a bag of versions
    effects,   \* the script blocks that were executed: a bag of versions
    op,        \* per runner: the engine method last called
    pc,        \* per runner: the await the call stands at, or "idle"
    arg,       \* per runner: the version of the migration being run or skipped
    local,     \* per runner: the result of this.listLocalMigrations()
    todo,      \* per runner: the pending migrations not yet run
    calls,     \* per runner: the collaborator calls of the current call, in order
    status,    \* per runner: "none", "running", "ok" or the error thrown
    ret,       \* per runner: the value the call returned
    warned,    \* per runner: the versions the call signalled as orphaned
    seen0,     \* per runner: the versions recorded when the call started
    afterRun,  \* per runner: the call before was a runMigrations that returned
    onlyRuns,  \* every call so far was a runMigrations that raised no error
    failed,    \* the version whose script last made a runMigrations fail, if any
    cli,       \* the command the pomp executable is running, and where it stands
    loop       \* the merge loop of pendingMigrations taken turn by turn

vars == <<files, schema, table, rows, effects, op, pc, arg, local, todo, calls,
          status, ret, warned, seen0, afterRun, onlyRuns, failed, cli, loop>>

dbVars == <<schema, table, rows, effects>>

Stored == BagToSet(rows)

Versions(list) == {list[k].version : k \in 1..Len(list)}

\* the local migrations whose version was not recorded when r's call started
PendingAtCall(r) ==
    LET Unrecorded(e) == e.version \notin seen0[r]
    IN  SelectSeq(local[r], Unrecorded)

\* no runMigrations has failed on a script
NoFailure == [on |-> TRUE, at |-> <<>>]

\* the failures of runMigrations are not followed
Unfollowed == [on |-> FALSE, at |-> <<>>]

\* the pomp executable is not running
NoCli == [cmd |-> "none", args |-> <<>>, pc |-> "none", todo |-> <<>>,
          count |-> 0, exit |-> -1]

\* no merge loop is being followed
NoLoop == [on |-> FALSE, local |-> <<>>, remote |-> <<>>, i |-> 0, j |-> 0,
           pending |-> <<>>, read |-> {}]

\* the local list and the version table a behaviour starts from
InitWith(lists, stored) ==
    /\ files \in lists
    /\ \E t \in BOOLEAN, S \in SUBSET stored :
         /\ schema = t
         /\ table = t
         /\ rows = IF t THEN SetToBag(S) ELSE EmptyBag
    /\ effects = EmptyBag
    /\ op = [r \in Runners |-> "none"]
    /\ pc = [r \in Runners |-> "idle"]
    /\ arg = [r \in Runners |-> V(0)]
    /\ local = [r \in Runners |-> <<>>]
    /\ todo = [r \in Runners |-> <<>>]
    /\ calls = [r \in Runners |-> <<>>]
    /\ status = [r \in Runners |-> "none"]
    /\ ret = [r \in Runners |-> <<>>]
    /\ warned = [r \in Runners |-> <<>>]
    /\ seen0 = [r \in Runners |-> {}]
    /\ afterRun = [r \in Runners |-> FALSE]
    /\ onlyRuns = TRUE
    /\ cli = NoCli

EngineLists == {q \in SeqsUpTo(EnginePool, MaxLocal) : Injective(q)}

Init == InitWith(EngineLists, StoredVersions) /\ failed = Unfollowed /\ loop = NoLoop

(***************************************************************************)
(* The pomp executable (src/pomp.js): the collaborator it wires into the   *)
(* engine.  files is then what readdir(WD) returns; a missing directory    *)
(* gives the empty list as an empty one does.                              *)
(***************************************************************************)
\* ".sql"
SqlExt == <<".", "s", "q", "l">>

\* the directory of the migrations, resolved: "/wd"
WD == <<"/", "w", "d">>

\* path.extname of a file name: from its last '.' on, if that is not its
\* first character
Extname(file) ==
    LET dots == {k \in 1..Len(file) : file[k] = "."}
        last == CHOOSE k \in dots : \A j \in dots : j <= k
    IN  IF dots = {} THEN <<>>
        ELSE IF last = 1 THEN <<>>
        ELSE SubSeq(file, last, Len(file))

\* path.basename(file, '.sql') of a file name that ends in .sql
BasenameSql(file) == SubSeq(file, 1, Len(file) - Len(SqlExt))

\* path.resolve(WD, file)
Resolve(file) == WD \o <<"/">> \o file

\* listLocalMigrations of src/pomp.js from file k on: an object with the
\* version and the resolved name for every .sql file that starts with digits
RECURSIVE CliScan(_, _)
CliScan(dir, k) ==
    IF k > Len(dir) THEN <<>>
    ELSE IF Extname(dir[k]) # SqlExt THEN CliScan(dir, k + 1)
    ELSE IF MatchDigits(BasenameSql(dir[k])) = <<>> THEN CliScan(dir, k + 1)
    ELSE <<[version |-> Number(MatchDigits(BasenameSql(dir[k]))),
            name |-> Resolve(dir[k])]>> \o CliScan(dir, k + 1)

CliListLocalMigrations(dir) == CliScan(dir, 1)

\* Pomp.listLocalMigrations over a list of such objects: line 34 calls
\* pathName.split on the first of them, which is no function of an object
ListLocalOfObjects(versions) ==
    IF versions = <<>> THEN [error |-> "none", list |-> <<>>]
    ELSE [error |-> "TypeError", list |-> <<>>]

\* Number(args ?? 1) of line 87, args being process.argv.slice(3): an array
\* is never nullish and converts through its text, "" for no argument (0),
\* the argument itself for one, and "a,b" for more (NaN); i < NaN never
\* holds, so NaN lets the loop of line 89 turn as often as 0 does
SkipCount(args) == IF Len(args) = 1 THEN args[1] ELSE 0

\* the exit codes the process can end with after the engine threw e: 2 from
\* process.exit(2) in runSqlQuery for an error Postgres reported, 1 for a
\* rejection nothing handles
ExitCodes(e) ==
    CASE e \in {"UndefinedTable", "InvalidSchemaName", "UniqueViolation"} -> {2}
      [] e = "DatabaseError" -> {1, 2}
      [] OTHER -> {1}

(***************************************************************************)
(* Calls and returns.  A call stands at an await (pc) between steps; each  *)
(* step is one awaited collaborator call together with the synchronous     *)
(* code that follows it up to the next await.                              *)
(***************************************************************************)
Entry(fn, q, v, ok) == [fn |-> fn, q |-> q, version |-> v, ok |-> ok]

Log(r, e) == calls' = [calls EXCEPT ![r] = Append(@, e)]

\* runner r calls method o, which first awaits at p
Begin(r, o, p, a) ==
    /\ pc[r] = "idle"
    /\ afterRun' = [afterRun EXCEPT ![r] = op[r] = "runMigrations" /\ status[r] = "ok"]
    /\ op' = [op EXCEPT ![r] = o]
    /\ pc' = [pc EXCEPT ![r] = p]
    /\ arg' = [arg EXCEPT ![r] = a]
    /\ local' = [local EXCEPT ![r] = <<>>]
    /\ todo' = [todo EXCEPT ![r] = <<>>]
    /\ calls' = [calls EXCEPT ![r] = <<>>]
    /\ status' = [status EXCEPT ![r] = "running"]
    /\ ret' = [ret EXCEPT ![r] = <<>>]
    /\ warned' = [warned EXCEPT ![r] = <<>>]
    /\ seen0' = [seen0 EXCEPT ![r] = Stored]
    /\ onlyRuns' = (onlyRuns /\ o = "runMigrations")
    /\ UNCHANGED <<files, dbVars, failed, loop>>

Goto(r, p) ==
    /\ pc' = [pc EXCEPT ![r] = p]
    /\ UNCHANGED <<status, ret, onlyRuns, failed, cli, loop>>

Return(r, v) ==
    /\ pc' = [pc EXCEPT ![r] = "idle"]
    /\ status' = [status EXCEPT ![r] = "ok"]
    /\ ret' = [ret EXCEPT ![r] = v]
    /\ UNCHANGED <<onlyRuns, failed, cli, loop>>

Throw(r, e) ==
    /\ pc' = [pc EXCEPT ![r] = "idle"]
    /\ status' = [status EXCEPT ![r] = e]
    /\ onlyRuns' = FALSE
    /\ failed' = IF failed.on /\ op[r] = "runMigrations" /\ pc[r] = "script"
                 THEN [failed EXCEPT !.at = <<arg[r]>>]
                 ELSE failed
    /\ UNCHANGED <<ret, cli, loop>>

(***************************************************************************)
(* The public methods of Pomp.                                             *)
(***************************************************************************)
CallListLocalMigrations(r) ==
    Begin(r, "listLocalMigrations", "listLocal", V(0)) /\ UNCHANGED cli

\* listRemoteMigrations with a slip: the tables are not created first
CallListRemoteNoCreate(r) ==
    Begin(r, "listRemoteMigrations", "select", V(0)) /\ UNCHANGED cli

CallListRemoteMigrations(r) ==
    Begin(r, "listRemoteMigrations", "createSchema", V(0)) /\ UNCHANGED cli

\* pendingMigrations with a slip: the remote list is fetched first
CallPendingRemoteFirst(r) ==
    Begin(r, "pendingMigrations", "createSchema", V(0)) /\ UNCHANGED cli

CallPendingMigrations(r) ==
    Begin(r, "pendingMigrations", "listLocal", V(0)) /\ UNCHANGED cli

CallLatestVersions(r) ==
    Begin(r, "latestVersions", "listLocal", V(0)) /\ UNCHANGED cli

CallRunMigrations(r) ==
    Begin(r, "runMigrations", "listLocal", V(0)) /\ UNCHANGED cli

CallRunMigration(r) ==
    /\ \E v \in RunVersions : Begin(r, "runMigration", "script", v)
    /\ UNCHANGED cli

\* skipMigration with a slip: it goes through runMigration with an empty body
CallSkipRunsScript(r) ==
    /\ \E v \in SkipVersions : Begin(r, "skipMigration", "script", v)
    /\ UNCHANGED cli

CallSkipMigration(r) ==
    /\ \E v \in SkipVersions : Begin(r, "skipMigration", "insert", v)
    /\ UNCHANGED cli

CallCreateTables(r) ==
    Begin(r, "createTables", "createSchema", V(0)) /\ UNCHANGED cli

(***************************************************************************)
(* The steps.  A query fails with "DatabaseError" when the collaborator    *)
(* fails for a reason of its own (fault), and with the error Postgres      *)
(* raises when the statement cannot run on the database as it is.  A       *)
(* query that fails changes nothing.                                       *)
(* A migration script is taken not to write pomp.versions itself, and     *)
(* options.listLocalMigrations() is taken to return its list.             *)
(***************************************************************************)
\* await this.options.listLocalMigrations() and the loop, sort and return
\* of listLocalMigrations (lines 30-44)
ListLocalStep(r) ==
    /\ pc[r] = "listLocal"
    /\ Log(r, Entry("listLocalMigrations", "list", V(0), TRUE))
    /\ LET res == IF cli.cmd = "none" THEN ListLocalMigrations(files)
                  ELSE ListLocalOfObjects(CliListLocalMigrations(files))
       IN  IF res.error # "none"
           THEN Throw(r, res.error) /\ UNCHANGED local
           ELSE IF op[r] = "listLocalMigrations"
           THEN Return(r, res.list) /\ UNCHANGED local
           ELSE /\ local' = [local EXCEPT ![r] = res.list]
                /\ Goto(r, "createSchema")
    /\ UNCHANGED <<files, dbVars, op, arg, todo, warned, seen0, afterRun>>

\* CREATE SCHEMA IF NOT EXISTS pomp (line 132)
CreateSchemaStep(r) ==
    /\ pc[r] = "createSchema"
    /\ \E ok \in BOOLEAN :
         /\ Log(r, Entry("runSqlQuery", "createSchema", V(0), ok))
         /\ IF ok
            THEN schema' = TRUE /\ Goto(r, "createTable")
            ELSE UNCHANGED schema /\ Throw(r, "DatabaseError")
    /\ UNCHANGED <<files, table, rows, effects, op, arg, local, todo, warned,
                   seen0, afterRun>>

\* the create with a slip: the table is dropped and created anew, without
\* the rows it held
CreateTableStepFresh(r) ==
    /\ pc[r] = "createTable"
    /\ \E fault \in BOOLEAN :
         LET error == IF fault THEN "DatabaseError"
                      ELSE IF ~schema THEN "InvalidSchemaName" ELSE "none"
         IN
         /\ Log(r, Entry("runSqlQuery", "createTable", V(0), error = "none"))
         /\ IF error # "none" THEN UNCHANGED <<table, rows>> /\ Throw(r, error)
            ELSE /\ table' = TRUE
                 /\ rows' = EmptyBag
                 /\ IF op[r] = "createTables"
                    THEN Return(r, <<>>)
                    ELSE Goto(r, "select")
    /\ UNCHANGED <<files, schema, effects, op, arg, local, todo, warned,
                   seen0, afterRun>>

\* CREATE TABLE IF NOT EXISTS pomp.versions (lines 133-139)
CreateTableStep(r) ==
    /\ pc[r] = "createTable"
    /\ \E fault \in BOOLEAN :
         LET error == IF fault THEN "DatabaseError"
                      ELSE IF ~schema THEN "InvalidSchemaName" ELSE "none"
         IN
         /\ Log(r, Entry("runSqlQuery", "createTable", V(0), error = "none"))
         /\ IF error # "none" THEN UNCHANGED table /\ Throw(r, error)
            ELSE /\ table' = TRUE
                 /\ IF op[r] = "createTables"
                    THEN Return(r, <<>>)
                    ELSE Goto(r, "select")
    /\ UNCHANGED <<files, schema, rows, effects, op, arg, local, todo, warned,
                   seen0, afterRun>>

\* the first element where the last is meant: shift() for pop()
LastVersionFirst(list) == IF list = <<>> THEN <<>> ELSE <<list[1].version>>

\* the last element of a list, if any: list.pop() read with ?.version
LastVersion(list) == IF list = <<>> THEN <<>> ELSE <<list[Len(list)].version>>

\* select version from pomp.versions order by version (line 149), the map
\* of line 150, and what the caller does with the list
SelectStep(r) ==
    /\ pc[r] = "select"
    /\ \E fault \in BOOLEAN :
         LET error == IF fault THEN "DatabaseError"
                      ELSE IF ~table THEN "UndefinedTable" ELSE "none"
         IN
         /\ Log(r, Entry("runSqlQuery", "select", V(0), error = "none"))
         /\ IF error # "none" THEN Throw(r, error) /\ UNCHANGED todo
            ELSE LET remote  == MapRemote(SelectVersions(rows))
                     pending == PendingOf(local[r], remote)
                 IN  CASE op[r] = "listRemoteMigrations" ->
                            Return(r, remote) /\ UNCHANGED todo
                       [] op[r] = "latestVersions" ->
                            /\ Return(r, <<LastVersion(local[r]), LastVersion(remote)>>)
                            /\ UNCHANGED todo
                       [] op[r] = "pendingMigrations" ->
                            Return(r, pending) /\ UNCHANGED todo
                       [] op[r] = "runMigrations" ->
                            /\ todo' = [todo EXCEPT ![r] = pending]
                            /\ IF pending = <<>>
                               THEN Return(r, <<>>)
                               ELSE Goto(r, "readFile")
    /\ UNCHANGED <<files, dbVars, op, arg, local, warned, seen0, afterRun>>

\* const data = await readFile(p.name) (line 71)
ReadFileStep(r) ==
    /\ pc[r] = "readFile"
    /\ \E ok \in BOOLEAN :
         /\ Log(r, Entry("readFile", "body", Head(todo[r]).version, ok))
         /\ IF ok
            THEN /\ arg' = [arg EXCEPT ![r] = Head(todo[r]).version]
                 /\ Goto(r, "script")
            ELSE UNCHANGED arg /\ Throw(r, "ReadError")
    /\ UNCHANGED <<files, dbVars, op, local, todo, warned, seen0, afterRun>>

\* the script step with a slip: a failure of the DO block is swallowed
ScriptStepSwallow(r) ==
    /\ pc[r] = "script"
    /\ BagCardinality(effects) < MaxEffects
    /\ \E ok \in BOOLEAN :
         /\ Log(r, Entry("runSqlQuery", "script", arg[r], ok))
         /\ effects' = IF ok THEN effects (+) SetToBag({arg[r]}) ELSE effects
         /\ Goto(r, "insert")
    /\ UNCHANGED <<files, schema, table, rows, op, arg, local, todo, warned,
                   seen0, afterRun>>

\* await this.options.runSqlQuery(query): the DO block (lines 55-58)
ScriptStep(r) ==
    /\ pc[r] = "script"
    /\ BagCardinality(effects) < MaxEffects
    /\ \E ok \in BOOLEAN :
         /\ Log(r, Entry("runSqlQuery", "script", arg[r], ok))
         /\ IF ok
            THEN effects' = effects (+) SetToBag({arg[r]}) /\ Goto(r, "insert")
            ELSE UNCHANGED effects /\ Throw(r, "DatabaseError")
    /\ UNCHANGED <<files, schema, table, rows, op, arg, local, todo, warned,
                   seen0, afterRun>>

\* the insert as it would be in one transaction with the script: when it
\* fails, what the script did is undone
InsertStepRollsBack(r) ==
    /\ pc[r] = "insert"
    /\ \E fault \in BOOLEAN :
         LET res   == InsertVersion(rows, arg[r])
             error == IF fault THEN "DatabaseError"
                      ELSE IF ~table THEN "UndefinedTable" ELSE res.error
         IN
         /\ Log(r, Entry("runSqlQuery", "insert", arg[r], error = "none"))
         /\ IF error # "none"
            THEN /\ Throw(r, error)
                 /\ effects' = effects (-) SetToBag({arg[r]})
                 /\ UNCHANGED <<rows, todo>>
            ELSE /\ rows' = res.rows
                 /\ UNCHANGED effects
                 /\ IF op[r] = "runMigrations"
                    THEN /\ todo' = [todo EXCEPT ![r] = Tail(@)]
                         /\ IF Len(todo[r]) = 1
                            THEN Return(r, <<>>)
                            ELSE Goto(r, "readFile")
                    ELSE Return(r, <<>>) /\ UNCHANGED todo
    /\ UNCHANGED <<files, schema, table, op, arg, local, warned, seen0, afterRun>>

\* the insert of the version (line 59, line 123) and the next turn of the
\* loop of runMigrations
InsertStep(r) ==
    /\ pc[r] = "insert"
    /\ \E fault \in BOOLEAN :
         LET res   == InsertVersion(rows, arg[r])
             error == IF fault THEN "DatabaseError"
                      ELSE IF ~table THEN "UndefinedTable" ELSE res.error
         IN
         /\ Log(r, Entry("runSqlQuery", "insert", arg[r], error = "none"))
         /\ IF error # "none" THEN Throw(r, error) /\ UNCHANGED <<rows, todo>>
            ELSE /\ rows' = res.rows
                 /\ IF op[r] = "runMigrations"
                    THEN /\ todo' = [todo EXCEPT ![r] = Tail(@)]
                         /\ IF Len(todo[r]) = 1
                            THEN Return(r, <<>>)
                            ELSE Goto(r, "readFile")
                    ELSE Return(r, <<>>) /\ UNCHANGED todo
    /\ UNCHANGED <<files, schema, table, effects, op, arg, local, warned, seen0,
                   afterRun>>

Step(r) ==
    \/ CallListLocalMigrations(r)
    \/ CallListRemoteMigrations(r)
    \/ CallPendingMigrations(r)
    \/ CallLatestVersions(r)
    \/ CallRunMigrations(r)
    \/ CallRunMigration(r)
    \/ CallSkipMigration(r)
    \/ CallCreateTables(r)
    \/ ListLocalStep(r)
    \/ CreateSchemaStep(r)
    \/ CreateTableStep(r)
    \/ SelectStep(r)
    \/ ReadFileStep(r)
    \/ ScriptStep(r)
    \/ InsertStep(r)

\* one engine, one caller that awaits each call
Next == Step(1)

Spec == Init /\ [][Next]_vars

(***************************************************************************)
(* The calls that change the database, with the failures of runMigrations  *)
(* followed: failed keeps the version whose script last made one fail.     *)
(***************************************************************************)
InitResume == InitWith(EngineLists, StoredVersions) /\ failed = NoFailure /\ loop = NoLoop

NextResume ==
    \/ CallRunMigrations(1)
    \/ CallRunMigration(1)
    \/ CallSkipMigration(1)
    \/ ListLocalStep(1)
    \/ CreateSchemaStep(1)
    \/ CreateTableStep(1)
    \/ SelectStep(1)
    \/ ReadFileStep(1)
    \/ ScriptStep(1)
    \/ InsertStep(1)

SpecResume == InitResume /\ [][NextResume]_vars

(***************************************************************************)
(* Two runners on one database and one local list, each calling            *)
(* runMigrations once; their awaits interleave in any order.               *)
(***************************************************************************)
InitTwo == InitWith(EngineLists, StoredVersions) /\ failed = Unfollowed /\ loop = NoLoop

\* runner r calls runMigrations, its one call
CallRunMigrationsOnce(r) == op[r] = "none" /\ CallRunMigrations(r)

NextTwo ==
    \/ \E r \in Runners : CallRunMigrationsOnce(r)
    \/ \E r \in Runners : ListLocalStep(r)
    \/ \E r \in Runners : CreateSchemaStep(r)
    \/ \E r \in Runners : CreateTableStep(r)
    \/ \E r \in Runners : SelectStep(r)
    \/ \E r \in Runners : ReadFileStep(r)
    \/ \E r \in Runners : ScriptStep(r)
    \/ \E r \in Runners : InsertStep(r)

SpecTwo == InitTwo /\ [][NextTwo]_vars

(***************************************************************************)
(* listLocalMigrations alone, over every list of identifiers.              *)
(***************************************************************************)
InitList == InitWith(SeqsUpTo(ListPool, MaxLocal), {}) /\ failed = Unfollowed /\ loop = NoLoop

NextList == CallListLocalMigrations(1) \/ ListLocalStep(1)

SpecList == InitList /\ [][NextList]_vars

(***************************************************************************)
(* pendingMigrations alone, over every version table.                      *)
(***************************************************************************)
\* stored versions before, between, among and after the local versions
MergeVersions == {V(1), V(2), V(3), V(5), V(10), V(11)}

InitMerge == InitWith(EngineLists, MergeVersions) /\ failed = Unfollowed /\ loop = NoLoop

NextMerge ==
    \/ CallPendingMigrations(1)
    \/ ListLocalStep(1)
    \/ CreateSchemaStep(1)
    \/ CreateTableStep(1)
    \/ SelectStep(1)

SpecMerge == InitMerge /\ [][NextMerge]_vars

(***************************************************************************)
(* The merge loop of pendingMigrations turn by turn (lines 98-113), on the *)
(* lists listLocalMigrations() and listRemoteMigrations() can return.      *)
(* read keeps the positions of the remote entries a turn has read.         *)
(***************************************************************************)
\* the merge loop with a slip: an orphaned remote version is not passed
MergeStepStuck(st) ==
    LET l  == st.local[st.i]
        has == st.j <= Len(st.remote)
        rd == IF has THEN st.read \cup {st.j} ELSE st.read
    IN  IF has /\ l.version = st.remote[st.j].version
        THEN [st EXCEPT !.i = @ + 1, !.j = @ + 1, !.read = rd]
        ELSE IF has /\ NumLt(st.remote[st.j].version, l.version)
        THEN [st EXCEPT !.read = rd]
        ELSE [st EXCEPT !.i = @ + 1, !.pending = Append(@, l), !.read = rd]

\* one turn of the loop (lines 101-111); remote[j]?.version reads an entry
\* when j is a position of remote
MergeStep(st) ==
    LET l  == st.local[st.i]
        has == st.j <= Len(st.remote)
        rd == IF has THEN st.read \cup {st.j} ELSE st.read
    IN  IF has /\ l.version = st.remote[st.j].version
        THEN [st EXCEPT !.i = @ + 1, !.j = @ + 1, !.read = rd]
        ELSE IF has /\ NumLt(st.remote[st.j].version, l.version)
        THEN [st EXCEPT !.j = @ + 1, !.read = rd]
        ELSE [st EXCEPT !.i = @ + 1, !.pending = Append(@, l), !.read = rd]

\* the loop is entered with i and j at the first positions (lines 98-100)
InitLoop ==
    /\ InitWith(EngineLists, {})
    /\ failed = Unfollowed
    /\ ListLocalMigrations(files).error = "none"
    /\ \E S \in SUBSET MergeVersions :
         loop = [on |-> TRUE,
                 local |-> ListLocalMigrations(files).list,
                 remote |-> MapRemote(SelectVersions(SetToBag(S))),
                 i |-> 1, j |-> 1, pending |-> <<>>, read |-> {}]

\* a turn of the loop: i < local.length holds (line 100)
MergeTurn ==
    /\ loop.on
    /\ loop.i <= Len(loop.local)
    /\ loop' = MergeStep(loop)
    /\ UNCHANGED <<files, dbVars, op, pc, arg, local, todo, calls, status, ret,
                   warned, seen0, afterRun, onlyRuns, failed, cli>>

\* i < local.length fails: the loop is left and pending returned (line 113)
MergeReturn ==
    /\ loop.on
    /\ loop.i > Len(loop.local)
    /\ loop' = [loop EXCEPT !.on = FALSE]
    /\ UNCHANGED <<files, dbVars, op, pc, arg, local, todo, calls, status, ret,
                   warned, seen0, afterRun, onlyRuns, failed, cli>>

NextLoop == MergeTurn \/ MergeReturn

\* the loop is synchronous code: nothing keeps it from its next turn
SpecLoop == InitLoop /\ [][NextLoop]_vars /\ WF_vars(NextLoop)

(***************************************************************************)
(* The pomp executable (src/pomp.js, lines 1-149): one process per         *)
(* command, on the engine with the collaborators of lines 12-32 and 52-74. *)
(* The command new writes no migration and asks the engine nothing; it is  *)
(* left out.                                                               *)
(***************************************************************************)
\* "5-n.txt"
NotesTxt ==
    <<"5", "-", "n", ".", "t", "x", "t">>

CliPool == {InitSql, AddColSql, SeedSql, Readme, NotesTxt}

CliLists == {q \in SeqsUpTo(CliPool, MaxLocal) : Injective(q)}

\* the arguments given to skip
SkipArgs == {<<>>, <<1>>, <<3>>, <<3, 5>>}

engineVars == <<files, dbVars, op, pc, arg, local, todo, calls, status, ret,
                warned, seen0, afterRun, onlyRuns, failed, loop>>

\* no process is running: none was started, or the last one has ended
CliIdle == cli.pc \in {"none", "exited"} /\ pc[1] = "idle"

Command(c, a, p) ==
    [cmd |-> c, args |-> a, pc |-> p, todo |-> <<>>, count |-> SkipCount(a),
     exit |-> -1]

\* the process ends with exit code c
Exit(c) ==
    /\ cli' = [cli EXCEPT !.pc = "exited", !.exit = c]
    /\ UNCHANGED engineVars

\* case 'run': runOperation up to its first await (line 77)
CliRun ==
    /\ CliIdle
    /\ Begin(1, "pendingMigrations", "listLocal", V(0))
    /\ cli' = Command("run", <<>>, "pending")

\* case 'skip': skipOperation up to its first await (lines 87-88)
CliSkip ==
    /\ CliIdle
    /\ Begin(1, "pendingMigrations", "listLocal", V(0))
    /\ \E a \in SkipArgs : cli' = Command("skip", a, "pending")

\* case 'version': versionOperation up to its await (line 96)
CliVersion ==
    /\ CliIdle
    /\ Begin(1, "latestVersions", "listLocal", V(0))
    /\ cli' = Command("version", <<>>, "latest")

\* default: any other word, help and pending among them, goes to
\* helpOperation, which prints the usage and exits (lines 128, 145-147)
CliHelp ==
    /\ CliIdle
    /\ \E o \in {"help", "pending"} :
         cli' = [Command(o, <<>>, "exited") EXCEPT
                     !.exit = IF o = "help" THEN 0 ELSE 1]
    /\ UNCHANGED engineVars

\* the loop of runOperation from the migrations rest on (lines 78-83)
CliRunLoop(rest) ==
    IF rest = <<>> THEN Exit(0)
    ELSE \E ok \in BOOLEAN :
           IF ok
           THEN /\ Begin(1, "runMigration", "script", Head(rest).version)
                /\ cli' = [cli EXCEPT !.pc = "runMigration", !.todo = rest]
           ELSE Exit(1)

\* the loop of skipOperation with n turns left (lines 89-92)
CliSkipLoop(rest, n) ==
    IF n <= 0 \/ rest = <<>> THEN Exit(0)
    ELSE /\ Begin(1, "skipMigration", "insert", Head(rest).version)
         /\ cli' = [cli EXCEPT !.pc = "skipMigration", !.todo = rest, !.count = n]

\* the engine call the command awaits has settled
CliResume ==
    /\ cli.pc \notin {"none", "exited"}
    /\ pc[1] = "idle"
    /\ IF status[1] # "ok"
       THEN \E c \in ExitCodes(status[1]) : Exit(c)
       ELSE CASE cli.pc = "latest" -> Exit(0)
              [] cli.pc = "pending" /\ cli.cmd = "run" -> CliRunLoop(ret[1])
              [] cli.pc = "runMigration" -> CliRunLoop(Tail(cli.todo))
              [] cli.pc = "pending" /\ cli.cmd = "skip" ->
                     CliSkipLoop(ret[1], cli.count)
              [] cli.pc = "skipMigration" ->
                     CliSkipLoop(Tail(cli.todo), cli.count - 1)

InitCli == InitWith(CliLists, StoredVersions) /\ failed = Unfollowed /\ loop = NoLoop

\* the steps of runMigration and skipMigration are left out: no command
\* comes to call either method (CliCallsNeither)
NextCli ==
    \/ CliRun
    \/ CliSkip
    \/ CliVersion
    \/ CliHelp
    \/ CliResume
    \/ ListLocalStep(1)
    \/ CreateSchemaStep(1)
    \/ CreateTableStep(1)
    \/ SelectStep(1)

SpecCli == InitCli /\ [][NextCli]_vars

\* no command comes to call runMigration or skipMigration
CliCallsNeither == pc[1] \notin {"script", "insert"}

(***************************************************************************)
(* Properties.                                                             *)
(***************************************************************************)
\* runner r's call of method o has returned without an error
Returned(r, o) == op[r] = o /\ pc[r] = "idle" /\ status[r] = "ok"

\* runner r's call of method o has ended
Ended(r, o) == op[r] = o /\ pc[r] = "idle" /\ status[r] # "running"

Ascending(list) ==
    \A a, b \in 1..Len(list) : a < b => NumLt(list[a].version, list[b].version)

\* the versions listRemoteMigrations reads from the table
RemoteVersions == {ToDouble(x) : x \in Stored}

\* C1: pendingMigrations() returns exactly the local migrations whose
\* version is not among the remote versions, each exactly once and in
\* ascending version order, whatever orphaned versions the remote list holds.
C1_PendingExact ==
    \A r \in Runners :
        Returned(r, "pendingMigrations") =>
            /\ \A k \in 1..Len(ret[r]) :
                 /\ \E a \in 1..Len(local[r]) : local[r][a] = ret[r][k]
                 /\ ret[r][k].version \notin RemoteVersions
            /\ \A a \in 1..Len(local[r]) :
                 local[r][a].version \notin RemoteVersions =>
                     Cardinality({k \in 1..Len(ret[r]) : ret[r][k] = local[r][a]}) = 1
            /\ Ascending(ret[r])

\* C1 witness: a call returned a pending migration that follows an orphaned
\* remote version and a matched one, with a further orphan behind it
C1_Witness ==
    /\ Returned(1, "pendingMigrations")
    /\ Versions(local[1]) = {V(2), V(3), V(10)}
    /\ RemoteVersions = {V(1), V(2), V(5), V(11)}
    /\ Versions(ret[1]) = {V(3), V(10)}

\* C2: when runMigrations has returned without error, the next call of
\* pendingMigrations() (same local list, no other writer) returns the empty list.
C2_RoundTrip ==
    \A r \in Runners :
        (Returned(r, "pendingMigrations") /\ afterRun[r]) => ret[r] = <<>>

\* C2 witness: pendingMigrations returned after a runMigrations that ran two scripts
C2_Witness ==
    /\ Returned(1, "pendingMigrations")
    /\ afterRun[1]
    /\ BagCardinality(effects) >= 2
    /\ Len(local[1]) >= 2

\* the readFile calls of r's call
BodiesRead(r) ==
    LET IsBody(e) == e.q = "body"
    IN  SelectSeq(calls[r], IsBody)

\* C3: runMigrations reads the body of a pending migration, executes its
\* script and inserts its version, each awaited, before it reads the body of
\* the next one, and takes the pending migrations one after the other in
\* ascending version order.
C3_Sequential ==
    \A r \in Runners :
        op[r] = "runMigrations" =>
            /\ Len(BodiesRead(r)) <= Len(PendingAtCall(r))
            /\ \A n \in 1..Len(BodiesRead(r)) :
                 BodiesRead(r)[n].version = PendingAtCall(r)[n].version
            /\ \A k \in 1..Len(calls[r]) :
                LET c == calls[r][k]
                    b == calls[r][k - 1]
                IN  /\ c.q = "body" =>
                           /\ k > 1
                           /\ b.ok
                           /\ \/ b.q = "select"
                              \/ b.q = "insert" /\ NumLt(b.version, c.version)
                    /\ c.q = "script" =>
                           k > 1 /\ b.ok /\ b.q = "body" /\ b.version = c.version
                    /\ c.q = "insert" =>
                           k > 1 /\ b.ok /\ b.q = "script" /\ b.version = c.version

\* C3 witness: a runMigrations that recorded two migrations has returned
C3_Witness ==
    /\ Returned(1, "runMigrations")
    /\ \E k, m \in 1..Len(calls[1]) :
         /\ k < m
         /\ calls[1][k].q = "insert"
         /\ calls[1][m].q = "insert"

\* the local migrations that are pending for r's call and come after version m
LaterPending(r, m) ==
    {local[r][a].version : a \in {x \in 1..Len(local[r]) :
         /\ NumLt(m, local[r][x].version)
         /\ local[r][x].version \notin seen0[r]}}

\* C4: when the script query of a pending migration fails during
\* runMigrations, the call ends with that error, the version is not recorded,
\* and no later pending migration is read, executed or recorded.
C4_FailFast ==
    \A r \in Runners :
        op[r] = "runMigrations" =>
            \A k \in 1..Len(calls[r]) :
                (calls[r][k].q = "script" /\ ~calls[r][k].ok) =>
                    /\ k = Len(calls[r])
                    /\ pc[r] = "idle"
                    /\ status[r] = "DatabaseError"
                    /\ calls[r][k].version \notin Stored
                    /\ \A v \in LaterPending(r, calls[r][k].version) :
                         /\ v \notin Stored
                         /\ \A j \in 1..Len(calls[r]) : calls[r][j].version # v

\* C4 witness: the script of the second of three pending migrations failed
C4_Witness ==
    /\ Ended(1, "runMigrations")
    /\ Len(calls[1]) > 0
    /\ calls[1][Len(calls[1])].q = "script"
    /\ ~calls[1][Len(calls[1])].ok
    /\ LaterPending(1, calls[1][Len(calls[1])].version) # {}
    /\ \E k \in 1..Len(calls[1]) : calls[1][k].q = "insert" /\ calls[1][k].ok

\* C5: the version table holds at most one record per version, and an insert
\* of a version that is already recorded raises no error.
C5_OneRecord ==
    /\ \A v \in Stored : CopiesIn(v, rows) = 1
    /\ \A r \in Runners : status[r] # "UniqueViolation"

\* C5 witness: skipMigration(v) returned for a version that was already
\* recorded after its script had been run
C5_Witness ==
    /\ Returned(1, "skipMigration")
    /\ arg[1] \in seen0[1]
    /\ BagIn(arg[1], effects)
    /\ CopiesIn(arg[1], rows) = 1

\* C6: runMigrations executes no script of a version that was recorded when
\* it was called, and over error-free runMigrations calls no script is
\* executed twice.
C6_NoRerun ==
    /\ \A r \in Runners :
         op[r] = "runMigrations" =>
             \A k \in 1..Len(calls[r]) :
                 calls[r][k].q = "script" => calls[r][k].version \notin seen0[r]
    /\ onlyRuns => \A v \in BagToSet(effects) : CopiesIn(v, effects) = 1

\* C6 witness: a second error-free runMigrations returned, with versions
\* recorded before it and scripts executed by the first
C6_Witness ==
    /\ onlyRuns
    /\ Returned(1, "runMigrations")
    /\ afterRun[1]
    /\ BagCardinality(effects) >= 2
    /\ Versions(local[1]) \subseteq seen0[1]

\* the last '/'-separated segment of an identifier
LastSegment(id) ==
    LET slashes == {k \in 1..Len(id) : id[k] = "/"}
        from    == IF slashes = {} THEN 1
                   ELSE (CHOOSE k \in slashes : \A j \in slashes : j <= k) + 1
    IN  SubSeq(id, from, Len(id))

\* the decimal digit run a text starts with
DigitRun(text) ==
    LET n == Cardinality({k \in 1..Len(text) : \A j \in 1..k : text[j] \in Digits})
    IN  SubSeq(text, 1, n)

\* the identifier's basename starts with a digit run
HasRun(id) == DigitRun(LastSegment(id)) # <<>>

\* the integer that digit run denotes
IntVersion(id) == Decimal(V(0), DigitRun(LastSegment(id)))

\* two identifiers of the list parse to the same integer version
DuplicateVersions(list) ==
    \E a, b \in 1..Len(list) :
        /\ a < b
        /\ HasRun(list[a])
        /\ HasRun(list[b])
        /\ IntVersion(list[a]) = IntVersion(list[b])

\* the error line 38 is written to raise
DuplicateError == "Error: Duplicate local migration versions found"

\* C7: with two identifiers that parse to the same integer version,
\* listLocalMigrations() fails with the error that reports the duplicate
\* local migration version, and returns no list.
C7_DuplicateReported ==
    \A r \in Runners :
        (Ended(r, "listLocalMigrations") /\ DuplicateVersions(files)) =>
            status[r] = DuplicateError /\ ret[r] = <<>>

\* C8: with a duplicate version in the local list, pendingMigrations(),
\* runMigrations() and latestVersions() fail before any call of runSqlQuery.
C8_DuplicateBeforeQueries ==
    \A r \in Runners :
        (/\ op[r] \in {"pendingMigrations", "runMigrations", "latestVersions"}
         /\ DuplicateVersions(files)) =>
            /\ pc[r] \in {"listLocal", "idle"}
            /\ pc[r] = "idle" => status[r] \notin {"ok", "running", "none"}
            /\ \A k \in 1..Len(calls[r]) : calls[r][k].fn # "runSqlQuery"
            /\ Stored = seen0[r]

\* C8 witness: runMigrations failed on a duplicate with no table created
C8_Witness ==
    /\ Ended(1, "runMigrations")
    /\ DuplicateVersions(files)
    /\ status[1] \notin {"ok", "running", "none"}
    /\ ~table

\* the remote versions with no local migration that lie below a local version
OrphansBelow(list) ==
    {v \in RemoteVersions :
        /\ v \notin Versions(list)
        /\ \E a \in 1..Len(list) : NumLt(v, list[a].version)}

\* C9: pendingMigrations() signals to its caller every remote version that
\* has no local migration and is smaller than a local version still to be
\* merged, and returns without failing.
C9_OrphanSignalled ==
    \A r \in Runners :
        Returned(r, "pendingMigrations") =>
            {warned[r][k] : k \in 1..Len(warned[r])} = OrphansBelow(local[r])

\* what the claim says listLocalMigrations returns for the list
ListedExactly(r) ==
    /\ status[r] = "ok"
    /\ Len(ret[r]) = Cardinality({k \in 1..Len(files) : HasRun(files[k])})
    /\ \A k \in 1..Len(files) :
         HasRun(files[k]) =>
             \E a \in 1..Len(ret[r]) :
                 /\ ret[r][a].name = files[k]
                 /\ ret[r][a].version = IntVersion(files[k])
    /\ Ascending(ret[r])

\* every digit run of the list is an integer a double holds exactly
SafeRuns(list) ==
    \A k \in 1..Len(list) : HasRun(list[k]) => NumLe(IntVersion(list[k]), Pow53)

\* C10 as stated: for every list without duplicate versions,
\* listLocalMigrations() returns one entry per identifier with a leading digit
\* run, its version the integer value of the run, sorted ascending by version.
C10_ListExact ==
    \A r \in Runners :
        (Ended(r, "listLocalMigrations") /\ ~DuplicateVersions(files)) =>
            ListedExactly(r)

\* C10 amended: the same for the lists whose digit runs do not exceed 2^53.
C10_ListExactSafe ==
    \A r \in Runners :
        (/\ Ended(r, "listLocalMigrations")
         /\ ~DuplicateVersions(files)
         /\ SafeRuns(files)) =>
            ListedExactly(r)

\* C10 witness: the list 3-init.sql, 10-add-col.sql, 2-seed.sql came back as
\* the versions 2, 3, 10
C10_Witness ==
    /\ Returned(1, "listLocalMigrations")
    /\ files = <<InitSql, AddColSql, SeedSql>>
    /\ ret[1] = <<[version |-> V(2), name |-> SeedSql],
                  [version |-> V(3), name |-> InitSql],
                  [version |-> V(10), name |-> AddColSql]>>

\* C11: latestVersions() returns as localVersion the greatest version of
\* listLocalMigrations() and as remoteVersion the greatest version of
\* listRemoteMigrations(), each absent exactly when its list is empty.
C11_LatestVersions ==
    \A r \in Runners :
        Returned(r, "latestVersions") =>
            LET IsMax(x, S) == x \in S /\ \A y \in S : NumLe(y, x)
                Latest(got, S) ==
                    IF S = {} THEN got = <<>>
                    ELSE Len(got) = 1 /\ IsMax(got[1], S)
            IN  /\ Latest(ret[r][1], Versions(local[r]))
                /\ Latest(ret[r][2], RemoteVersions)

\* C11 witness: no local migration and one recorded version give an absent
\* localVersion beside the recorded one; and a call with several on each side
C11_Witness ==
    /\ Returned(1, "latestVersions")
    /\ files = <<>>
    /\ ret[1] = <<(<<>>), <<V(5)>>>>

C11_WitnessMany ==
    /\ Returned(1, "latestVersions")
    /\ Cardinality(Versions(local[1])) >= 2
    /\ Cardinality(RemoteVersions) >= 2

\* the last collaborator call of r's call was the script of version m, and
\* it failed
FailedOnScript(r, m) ==
    /\ calls[r] # <<>>
    /\ LET e == calls[r][Len(calls[r])]
       IN  e.q = "script" /\ ~e.ok /\ e.version = m

\* runner r issues the script of the migration it stands at
ScriptIssued(r) == pc[r] = "script" /\ Len(calls'[r]) = Len(calls[r]) + 1

\* the local migrations as listLocalMigrations() lists them now
LocalNow == ListLocalMigrations(files).list

\* what a runMigrations that failed on the script of m had run is recorded
RecordedAtFailure ==
    \A r \in Runners : \A m \in Versions(local[r]) :
        (Ended(r, "runMigrations") /\ FailedOnScript(r, m)) =>
            \A v \in Versions(PendingAtCall(r)) : NumLt(v, m) => v \in Stored

\* the local migrations before the one that failed stay recorded
StayRecorded ==
    failed.at # <<>> =>
        \A v \in Versions(LocalNow) : NumLt(v, failed.at[1]) => v \in Stored

\* a later runMigrations issues the script of an unrecorded local migration
\* at or after the one that failed
LaterRun ==
    \A r \in Runners :
        (failed.at # <<>> /\ op[r] = "runMigrations" /\ ScriptIssued(r)) =>
            /\ NumLe(failed.at[1], arg[r])
            /\ arg[r] \in Versions(LocalNow)
            /\ arg[r] \notin Stored

\* C12: when runMigrations fails on the script of a pending migration m_k,
\* the pending migrations before m_k are recorded, and they stay recorded;
\* a later runMigrations issues the script of m_k or of a migration after
\* it only, never again the script of a migration before m_k.
C12_Resume ==
    /\ [](RecordedAtFailure /\ StayRecorded)
    /\ [][LaterRun]_vars

\* C12 witness: a runMigrations over 2, 3, 10 failed on the script of 3; the
\* next one ran to its end and executed 3 and 10, and 2 was executed once
C12_Witness ==
    /\ Returned(1, "runMigrations")
    /\ failed.at = <<V(3)>>
    /\ Versions(local[1]) = {V(2), V(3), V(10)}
    /\ seen0[1] = {V(2)}
    /\ Len(calls[1]) = 10
    /\ effects = SetToBag({V(2), V(3), V(10)})

\* what pendingMigrations() would return in the state as it is
PendingNow == PendingOf(LocalNow, MapRemote(SelectVersions(rows)))

\* C13: skipMigration(v) issues the insert-if-absent of v and nothing else:
\* no script, no read of the local list; v may be any version, local or
\* not; the record of every other version is left as it was; once it has
\* returned, pendingMigrations() does not report v.
C13_SkipFrame ==
    \A r \in Runners :
        op[r] = "skipMigration" =>
            /\ Len(calls[r]) <= 1
            /\ \A k \in 1..Len(calls[r]) :
                 /\ calls[r][k].fn = "runSqlQuery"
                 /\ calls[r][k].q = "insert"
                 /\ calls[r][k].version = arg[r]
            /\ \A v \in (Stored \cup seen0[r]) \ {arg[r]} :
                 v \in seen0[r] /\ CopiesIn(v, rows) = 1
            /\ Returned(r, "skipMigration") =>
                 /\ CopiesIn(arg[r], rows) = 1
                 /\ arg[r] \notin Versions(PendingNow)
            /\ ~Returned(r, "skipMigration") => Stored = seen0[r]

\* C13 witness: version 3, local and unrecorded, was skipped beside the
\* record of 5
C13_Witness ==
    /\ Returned(1, "skipMigration")
    /\ arg[1] = V(3)
    /\ V(3) \in Versions(LocalNow)
    /\ seen0[1] = {V(5)}
    /\ Stored = {V(3), V(5)}

\* a version no local migration has was skipped
C13_WitnessForeign ==
    /\ Returned(1, "skipMigration")
    /\ arg[1] = V(5)
    /\ V(5) \notin seen0[1]
    /\ Versions(LocalNow) # {}

\* the file is a migration of the directory: a .sql file whose name starts
\* with a digit run
SqlMigration(file) ==
    /\ Len(file) > 4
    /\ SubSeq(file, Len(file) - 3, Len(file)) = <<".", "s", "q", "l">>
    /\ HasRun(file)

\* the versions of the migrations of the directory
DirVersions == {IntVersion(files[k]) : k \in {a \in 1..Len(files) : SqlMigration(files[a])}}

\* the command c has ended, and no query of it failed for a reason of the
\* database connection
Exited(c) == cli.cmd = c /\ cli.pc = "exited" /\ status[1] # "DatabaseError"

\* C14: the command skip v1 v2 ... registers exactly the versions v1, v2,
\* ... it is given in the version store, and runs no migration script.
C14_SkipRegisters ==
    Exited("skip") =>
        /\ Stored = seen0[1] \cup {V(cli.args[k]) : k \in 1..Len(cli.args)}
        /\ effects = EmptyBag

\* C15: the command pending exits with code 1 when a local migration is not
\* recorded in the version store, and with code 0 when none is.
C15_PendingExit ==
    (cli.cmd = "pending" /\ cli.pc = "exited") =>
        cli.exit = IF DirVersions \subseteq Stored THEN 0 ELSE 1

\* C16: the command run, on the engine with the executable's own
\* listLocalMigrations, executes every .sql migration of the directory
\* whose version the store lacks and records each version.
C16_RunApplies ==
    Exited("run") =>
        /\ cli.exit = 0
        /\ DirVersions \subseteq Stored
        /\ \A v \in DirVersions \ seen0[1] : CopiesIn(v, effects) = 1

\* the methods that go through listRemoteMigrations()
ReadsRemote ==
    {"listRemoteMigrations", "pendingMigrations", "runMigrations", "latestVersions"}

\* the k-th collaborator call of r's call is the query q, and it succeeded
QueryOk(r, k, q) ==
    /\ k \in 1..Len(calls[r])
    /\ calls[r][k].fn = "runSqlQuery"
    /\ calls[r][k].q = q
    /\ calls[r][k].ok

\* C17: on every call of listRemoteMigrations(), and so of pendingMigrations,
\* runMigrations and latestVersions, the create-schema and the create-table
\* query are issued and awaited before the select is issued; what
\* listRemoteMigrations() returns is the versions of the store, ascending.
C17_CreateBeforeSelect ==
    \A r \in Runners :
        /\ \A k \in 1..Len(calls[r]) :
             calls[r][k].q = "select" =>
                 QueryOk(r, k - 2, "createSchema") /\ QueryOk(r, k - 1, "createTable")
        /\ (op[r] \in ReadsRemote /\ status[r] = "ok") =>
               \E k \in 1..Len(calls[r]) : QueryOk(r, k, "select")
        /\ Returned(r, "listRemoteMigrations") =>
               /\ Versions(ret[r]) = RemoteVersions
               /\ Len(ret[r]) = Cardinality(Stored)
               /\ Ascending(ret[r])

\* C17 witness: listRemoteMigrations() returned two versions after its
\* three queries
C17_Witness ==
    /\ Returned(1, "listRemoteMigrations")
    /\ Len(calls[1]) = 3
    /\ Len(ret[1]) = 2

\* r's call ended in the gap of runMigration for version v: the script
\* succeeded and the insert that followed it failed
GapAt(r, v) ==
    /\ op[r] \in {"runMigration", "runMigrations"}
    /\ status[r] \notin {"running", "ok"}
    /\ pc[r] = "idle"
    /\ Len(calls[r]) >= 2
    /\ LET n == Len(calls[r])
       IN  /\ calls[r][n].q = "insert" /\ ~calls[r][n].ok /\ calls[r][n].version = v
           /\ calls[r][n - 1].q = "script" /\ calls[r][n - 1].ok

\* the script of v succeeded in r's call
ScriptRan(r, v) ==
    \E k \in 1..Len(calls[r]) :
        calls[r][k].q = "script" /\ calls[r][k].ok /\ calls[r][k].version = v

\* C18: when the script of runMigration(v, body) succeeds and the insert
\* after it fails, the effects of the migration are applied and v has no
\* record, so pendingMigrations() still reports a local v; a runMigrations
\* that then runs to its end executes the script of every local version
\* unrecorded at its start, v among them a second time, and of no version
\* recorded by then, as v is once skipMigration(v) was called.
C18_Gap ==
    \A r \in Runners :
        /\ \A v \in {arg[r]} \ seen0[r] :
             GapAt(r, v) =>
                 /\ CopiesIn(v, effects) >= 1
                 /\ v \notin Stored
                 /\ v \in Versions(LocalNow) => v \in Versions(PendingNow)
        /\ Returned(r, "runMigrations") =>
             \A v \in Versions(local[r]) : ScriptRan(r, v) <=> v \notin seen0[r]

\* C18 witness: a runMigrations ran to its end and executed the script of
\* version 3, unrecorded though executed before, a second time
C18_Witness ==
    /\ Returned(1, "runMigrations")
    /\ ScriptRan(1, V(3))
    /\ CopiesIn(V(3), effects) = 2

\* C19: when two runMigrations calls interleave on one store and one local
\* list, the script of a migration can be executed twice, each runner having
\* computed its pending list once at its start; yet the store never holds
\* more than one record of a version, and neither runner fails on the insert
\* of a version because the other has inserted it.
C19_OneRecordEach ==
    /\ \A v \in Stored : CopiesIn(v, rows) = 1
    /\ \A r \in Runners :
         /\ status[r] \notin {"UniqueViolation", "UndefinedTable"}
         /\ \A k \in 1..Len(calls[r]) :
              (calls[r][k].q = "insert" /\ ~calls[r][k].ok) =>
                  (k = Len(calls[r]) /\ status[r] = "DatabaseError")

\* C19 witness: both runners ran to their end, each executed the script of
\* version 3, and the store holds one record of it
C19_Witness ==
    /\ Returned(1, "runMigrations")
    /\ Returned(2, "runMigrations")
    /\ ScriptRan(1, V(3))
    /\ ScriptRan(2, V(3))
    /\ CopiesIn(V(3), effects) = 2
    /\ CopiesIn(V(3), rows) = 1

\* the loop has been left
LoopDone == ~loop.on

\* i and j stay within one position past the end of their lists
LoopInRange ==
    /\ loop.i \in 1..(Len(loop.local) + 1)
    /\ loop.j \in 1..(Len(loop.remote) + 1)

\* a turn advances i or j and takes neither back
LoopAdvances ==
    loop' # loop /\ loop'.on =>
        /\ loop'.i \in {loop.i, loop.i + 1}
        /\ loop'.j \in {loop.j, loop.j + 1}
        /\ loop'.i = loop.i + 1 \/ loop'.j = loop.j + 1

\* with j past the end of remote, a turn appends the local migration at i
RemoteExhausted ==
    (loop' # loop /\ loop'.on /\ loop.j > Len(loop.remote)) =>
        /\ loop'.pending = Append(loop.pending, loop.local[loop.i])
        /\ loop'.i = loop.i + 1
        /\ loop'.j = loop.j

\* the positions of the remote entries whose version is after the last
\* local version; with no local migration every remote entry is one
Trailing ==
    {k \in 1..Len(loop.remote) :
        \A a \in 1..Len(loop.local) :
            NumLt(loop.local[a].version, loop.remote[k].version)}

\* no remote entry after the last local version is read
TrailingNeverRead == loop.read \cap Trailing = {}

\* of the remote entries after the last local version none but the first
\* is read, and j is never moved past one
TrailingFirstOnly ==
    /\ \A k \in loop.read \cap Trailing : \A n \in Trailing : k <= n
    /\ \A k \in Trailing : loop.j <= k

\* what the loop returns is what the merge of the engine model computes
LoopResult == LoopDone => loop.pending = PendingOf(loop.local, loop.remote)

\* C20 as stated: the merge loop terminates on all finite lists; every turn
\* advances i or j; once j is past the end of remote every remaining local
\* migration is appended; remote entries after the last local version are
\* never inspected.
C20_LoopTerminates ==
    /\ <>LoopDone
    /\ [](LoopInRange /\ LoopResult /\ TrailingNeverRead)
    /\ [][LoopAdvances /\ RemoteExhausted]_vars

\* C20 amended: the same, but of the remote entries after the last local
\* version the first may be read, once for each local migration left; none
\* behind it is read and j never passes one.
C20_LoopTerminatesFirstOnly ==
    /\ <>LoopDone
    /\ [](LoopInRange /\ LoopResult /\ TrailingFirstOnly)
    /\ [][LoopAdvances /\ RemoteExhausted]_vars

\* C20 witness: the loop was left with the remote list exhausted before the
\* local one, two migrations appended behind it
C20_Witness ==
    /\ LoopDone
    /\ Len(loop.remote) >= 1
    /\ loop.j = Len(loop.remote) + 1
    /\ Len(loop.pending) >= 2
    /\ loop.pending[Len(loop.pending)] = loop.local[Len(loop.local)]
    /\ loop.pending[Len(loop.pending) - 1] = loop.local[Len(loop.local) - 1]

\* the first remote entry after the last local version was read, the one
\* behind it was not
C20_WitnessTrailing ==
    /\ LoopDone
    /\ Cardinality(Trailing) >= 2
    /\ loop.read \cap Trailing # {}

\* the methods that only report
Reports ==
    {"listLocalMigrations", "listRemoteMigrations", "pendingMigrations",
     "latestVersions"}

\* the collaborator calls a reporting method may make
ReportCalls == {"list", "createSchema", "createTable", "select"}

\* the calls of a reporting method are the listing of the local migrations,
\* the two create queries and the select; listLocalMigrations sends no query
ReportsOnlyRead ==
    \A r \in Runners :
        op[r] \in Reports =>
            /\ \A k \in 1..Len(calls[r]) : calls[r][k].q \in ReportCalls
            /\ op[r] = "listLocalMigrations" =>
                   \A k \in 1..Len(calls[r]) : calls[r][k].q = "list"
            /\ Stored = seen0[r]

\* a step of a reporting method keeps every row and every effect, and
\* creates the schema or the table at most: what exists stays
ReportsKeepRows ==
    op'[1] \in Reports =>
        /\ rows' = rows
        /\ effects' = effects
        /\ schema => schema'
        /\ table => table'
        /\ op'[1] = "listLocalMigrations" => dbVars' = dbVars

\* C21: listLocalMigrations(), listRemoteMigrations(), pendingMigrations()
\* and latestVersions() leave the version records as they are and execute
\* no migration script; all they write is the schema and the table, created
\* if they do not exist.
C21_ReportsWriteNothing ==
    /\ []ReportsOnlyRead
    /\ [][ReportsKeepRows]_vars

\* C21 witness: pendingMigrations() returned on a store with a record and
\* an executed script, both as they were
C21_Witness ==
    /\ Returned(1, "pendingMigrations")
    /\ Len(calls[1]) = 4
    /\ Stored # {}
    /\ Stored = seen0[1]
    /\ effects # EmptyBag
    /\ ret[1] # <<>>

\* no step removes a record
RecordsKept == Stored \subseteq Stored'

\* pendingMigrations() returns no version that was recorded when it was
\* called, nor one that is recorded now
PendingUnrecorded ==
    \A r \in Runners :
        Returned(r, "pendingMigrations") =>
            Versions(ret[r]) \cap (seen0[r] \cup Stored) = {}

\* C22: forward-only: over any sequence of calls of the eight engine
\* methods, returning or failing, the store never loses a version; a version
\* once recorded stays recorded and pendingMigrations() never returns it
\* again.
C22_ForwardOnly ==
    /\ [][RecordsKept]_vars
    /\ []PendingUnrecorded

\* C22 witness: after a script was executed, pendingMigrations() returned
\* a local migration and none of the two recorded versions, one of them local
C22_Witness ==
    /\ Returned(1, "pendingMigrations")
    /\ Cardinality(Stored) >= 2
    /\ Versions(local[1]) \cap Stored # {}
    /\ ret[1] # <<>>
    /\ effects # EmptyBag

\* the calls that insert a version without creating the table first
DirectInserts == {"skipMigration", "runMigration"}

\* C23: no insert of a version is issued before the schema and the table
\* exist: from a store without the table, skipMigration(v) or a direct
\* runMigration(v, body) called before any method that creates them still
\* records v, and runMigration does not end with its script applied and v
\* unrecorded.
C23_TableBeforeInsert ==
    \A r \in Runners :
        /\ \A k \in 1..Len(calls[r]) : calls[r][k].q = "insert" => table
        /\ status[r] # "UndefinedTable"
        /\ (op[r] \in DirectInserts /\ Ended(r, op[r]) /\ status[r] # "DatabaseError") =>
               arg[r] \in Stored

====
